---------------------------- MODULE Spec2Model ----------------------------
(* import_books.py: BookBuddy CSV import with Open Library enrichment,     *)
(* resumable through a progress file.  One run of main() is a sequence of  *)
(* steps over the records the Source Reader returned; the process can be   *)
(* terminated between any two steps and started again on the same files,   *)
(* any number of times.                                                    *)
EXTENDS Integers, Sequences, FiniteSets, TLC

VARIABLES
  resumed,          \* this run follows a run that ran to its normal end
  pc,               \* position of the running process in main()
  error,            \* uncaught exception that ended the run, "" if none
  online,           \* whether urlopen can reach the remote service at all
  fixed,            \* the service gives the same answer to the same request
  initial_file,     \* PROGRESS_FILE as it was before the first run
  csv,              \* INPUT_CSV on disk: the rows csv.DictReader yields
  books,            \* main: books
  file,             \* PROGRESS_FILE on disk
  outfile,          \* OUTPUT_JSON on disk
  progress,         \* main: progress
  processed_books,  \* main: processed_books
  i,                \* main: index of the record the loop is at (0-based)
  isbn,             \* main: isbn
  cover_url,        \* main: cover_url
  calls,            \* Lookup Client invocations of the iteration under way
  slept,            \* time.sleep(REQUEST_DELAY) ran since the last invocation
  saves,            \* records processed at each completed save_progress
  hits,             \* records of this run answered from progress['processed']
  stdout            \* the SUMMARY lines printed

vars == <<resumed, pc, error, online, fixed, initial_file, csv, books, file, outfile, progress,
          processed_books, i, isbn, cover_url, calls, slept, saves, hits,
          stdout>>

-----------------------------------------------------------------------------
(* Bounds *)

MaxBooks == 2       \* rows in an input of any shape (InitSmall)
MaxBatch == 23      \* rows in a long input (InitBatch)
MaxFixed == 12      \* rows in an input looked up in a fixed catalogue (InitFixed)

(* Program constant: main checkpoints when (i + 1) % 10 == 0 *)
CheckpointEvery == 10

-----------------------------------------------------------------------------
(* Data *)

\* values of the Title, Author and ISBN columns
Titles == {"A", " B "}
Authors == {"X"}
ISBN10 == "0441013597"
ISBN13 == "978 0441013593"
HyphenatedISBN10 == "0-441-01359-7"
FoundISBN10 == "0441172717"
FoundISBN13 == "9780441172719"
InputISBNs == {"", HyphenatedISBN10, ISBN13}
CoverMedium == "https://covers.openlibrary.org/b/isbn/M.jpg"
CoverSmall == "https://covers.openlibrary.org/b/isbn/S.jpg"

None == [none |-> TRUE]

\* an exception that leaves a Lookup Client operation uncaught
Raised == [raised |-> TRUE]

Get(d, k, default) == IF k \in DOMAIN d THEN d[k] ELSE default

\* faulty variant: the mapping is replaced by the one entry
PutAlone(m, k, v) == [x \in {k} |-> v]

Put(m, k, v) == [x \in DOMAIN m \cup {k} |-> IF x = k THEN v ELSE m[x]]

Range(s) == {s[n] : n \in DOMAIN s}

\* str.replace(c, ''): s without the character c
Without(s, c) ==
  LET kept[n \in 0..Len(s)] ==
        IF n = 0 THEN ""
        ELSE IF SubSeq(s, n, n) = c THEN kept[n - 1]
        ELSE kept[n - 1] \o SubSeq(s, n, n)
  IN kept[Len(s)]

\* faulty variant: `if result:` alone, the field is not looked at
TruthyDict(r, k) == r # None

\* `result and result.get(k)`: a dict is truthy, None is not; a non-empty
\* string is truthy
Truthy(r, k) == r # None /\ k \in DOMAIN r /\ r[k] # ""

-----------------------------------------------------------------------------
(* Source Reader *)

\* s.lstrip() and s.rstrip(), for the blank character
LStrip(s) ==
  LET from[n \in 1..(Len(s) + 1)] ==
        IF n > Len(s) THEN n
        ELSE IF SubSeq(s, n, n) = " " THEN from[n + 1] ELSE n
  IN SubSeq(s, from[1], Len(s))

RStrip(s) ==
  LET upto[n \in 0..Len(s)] ==
        IF n = 0 THEN 0
        ELSE IF SubSeq(s, n, n) = " " THEN upto[n - 1] ELSE n
  IN SubSeq(s, 1, upto[Len(s)])

Strip(s) == RStrip(LStrip(s))

\* the record built from one row (lines 150-164); a column the file does not
\* have reads as the empty string
Book(row) ==
  [title |-> Strip(Get(row, "Title", "")),
   authors |-> Strip(Get(row, "Author", "")),
   isbn |-> Without(Strip(Get(row, "ISBN", "")), "-"),
   coverURL |-> "",
   notes |-> Strip(Get(row, "Notes", ""))]

\* faulty variant: rows without a title are kept
parse_keeps_untitled(rows) == [n \in DOMAIN rows |-> Book(rows[n])]

parse_bookbuddy_csv(rows) ==
  LET read[n \in 0..Len(rows)] ==
        IF n = 0 THEN <<>>
        ELSE IF Book(rows[n]).title # "" THEN Append(read[n - 1], Book(rows[n]))
        ELSE read[n - 1]
  IN read[Len(rows)]

-----------------------------------------------------------------------------
(* Progress Store *)

EmptyProgress == [processed |-> <<>>, last_index |-> 0]

AbsentFile == [kind |-> "absent", data |-> EmptyProgress]
JsonFile(p) == [kind |-> "json", data |-> p]
PartialFile == [kind |-> "partial", data |-> EmptyProgress]

\* load_progress: the file's content, or a fresh state when there is no file;
\* json.load raises on a file that holds no complete JSON document
LoadFails(f) == f.kind = "partial"
\* faulty variant: the file is never read, every run starts from a fresh state
load_progress_fresh(f) == EmptyProgress

load_progress(f) == IF f.kind = "json" THEN f.data ELSE EmptyProgress

\* save_progress: open(PROGRESS_FILE, 'w') truncates, json.dump then writes
save_open(f) == PartialFile
save_dump(p) == JsonFile(p)

-----------------------------------------------------------------------------
(* Lookup Client *)

CoverTemplate(id) == "https://covers.openlibrary.org/b/id/" \o ToString(id) \o "-M.jpg"

ErrorResponse == [status |-> "error"]

Docs == { [key |-> "/works/OL1W"],
          [key |-> "/works/OL2W", isbn |-> <<FoundISBN10, FoundISBN13>>, cover_i |-> 8],
          [key |-> "/works/OL3W", isbn |-> <<FoundISBN10>>],
          [key |-> "/works/OL4W", isbn |-> <<>>, cover_i |-> 8] }

\* what the search endpoint can answer (limit=1)
SearchResponses(up) ==
  IF up
  THEN {ErrorResponse, [status |-> "ok", docs |-> <<>>]}
         \cup {[status |-> "ok", docs |-> <<d>>] : d \in Docs}
  ELSE {ErrorResponse}

BookData == { [title |-> "t"],
              [title |-> "t", cover |-> [medium |-> CoverMedium, small |-> CoverSmall]],
              [title |-> "t", cover |-> [small |-> CoverSmall]],
              [title |-> "t", cover |-> [large |-> "L"]] }

CleanIsbn(s) == Without(Without(s, "-"), " ")

BibKey(s) == "ISBN:" \o CleanIsbn(s)

\* what the by-ISBN endpoint can answer for a request about isbn s
ByIsbnResponses(up, s) ==
  IF up
  THEN {ErrorResponse, [status |-> "ok", data |-> <<>>]}
         \cup {[status |-> "ok", data |-> [k \in {BibKey(s)} |-> bd]] : bd \in BookData}
  ELSE {ErrorResponse}

\* A service whose answer depends on the request alone. The by-ISBN endpoint
\* has no entry for any ISBN and the search by ISBN times out; the search by
\* title and author answers by the last character of the title.
CatalogueByIsbn(s) == [status |-> "ok", data |-> <<>>]

CatalogueSearchByIsbn(s) == ErrorResponse

CatalogueSearch(title, author) ==
  LET last == SubSeq(title, Len(title), Len(title)) IN
  IF last \in {"1", "4", "7"}
  THEN [status |-> "ok",
        docs |-> << [key |-> "/works/OL2W", isbn |-> <<FoundISBN10, FoundISBN13>>,
                     cover_i |-> 8] >>]
  ELSE IF last \in {"3", "6", "9"}
  THEN [status |-> "ok", docs |-> << [key |-> "/works/OL3W", isbn |-> <<FoundISBN10>>] >>]
  ELSE IF last \in {"2", "5", "8"} THEN ErrorResponse
  ELSE [status |-> "ok", docs |-> <<>>]

\* what the service can answer to each kind of request in the current state
ByIsbnAnswers(s) ==
  IF fixed THEN {CatalogueByIsbn(CleanIsbn(s))} ELSE ByIsbnResponses(online, s)

SearchByIsbnAnswers(s) ==
  IF fixed THEN {CatalogueSearchByIsbn(CleanIsbn(s))} ELSE SearchResponses(online)

SearchAnswers(title, author) ==
  IF fixed THEN {CatalogueSearch(title, author)} ELSE SearchResponses(online)

\* Prefer ISBN-13, else the first of the list
PickIsbn(list) ==
  IF \E n \in DOMAIN list : Len(list[n]) = 13
  THEN list[CHOOSE n \in DOMAIN list :
              /\ Len(list[n]) = 13
              /\ \A m \in DOMAIN list : Len(list[m]) = 13 => n <= m]
  ELSE list[1]

\* faulty variant: no except clause, a failed request propagates
search_open_library_uncaught(title, author, resp) ==
  IF title = "" /\ author = "" THEN None
  ELSE IF resp.status = "error" THEN Raised
  ELSE IF resp.docs = <<>> THEN None
  ELSE LET doc == resp.docs[1] IN
       [isbn |-> IF "isbn" \in DOMAIN doc /\ doc.isbn # <<>>
                 THEN PickIsbn(doc.isbn) ELSE "",
        cover_url |-> IF "cover_i" \in DOMAIN doc
                      THEN CoverTemplate(doc.cover_i) ELSE ""]

search_open_library(title, author, resp) ==
  IF title = "" /\ author = "" THEN None
  ELSE IF resp.status = "error" THEN None
  ELSE IF resp.docs = <<>> THEN None
  ELSE LET doc == resp.docs[1] IN
       [isbn |-> IF "isbn" \in DOMAIN doc /\ doc.isbn # <<>>
                 THEN PickIsbn(doc.isbn) ELSE "",
        cover_url |-> IF "cover_i" \in DOMAIN doc
                      THEN CoverTemplate(doc.cover_i) ELSE ""]

search_by_isbn(s, resp) ==
  IF resp.status = "error" THEN None
  ELSE IF resp.docs = <<>> THEN None
  ELSE LET doc == resp.docs[1] IN
       [cover_url |-> IF "cover_i" \in DOMAIN doc
                      THEN CoverTemplate(doc.cover_i) ELSE ""]

\* faulty variant: the search is tried whatever the by-ISBN endpoint answered
FallsBackAlways(s, resp) == TRUE

\* whether lookup_isbn goes on to search_by_isbn after the by-ISBN answer
FallsBackToSearch(s, resp) ==
  resp.status = "ok" /\ BibKey(s) \notin DOMAIN resp.data

lookup_isbn(s, resp, sresp) ==
  IF resp.status = "error" THEN None
  ELSE IF FallsBackToSearch(s, resp) THEN search_by_isbn(CleanIsbn(s), sresp)
  ELSE LET book_data == resp.data[BibKey(s)] IN
       [cover_url |-> IF "cover" \in DOMAIN book_data
                      THEN Get(book_data.cover, "medium",
                               Get(book_data.cover, "small", ""))
                      ELSE ""]

-----------------------------------------------------------------------------
(* Enrichment Loop: helpers *)

BookKey(book) == book.title \o "|" \o book.authors

\* faulty variant: an entry without a cover does not count, the record is
\* looked up again
CacheHitWithCover(p, book) ==
  /\ BookKey(book) \in DOMAIN p.processed
  /\ Get(p.processed[BookKey(book)], "coverURL", "") # ""

CacheHit(p, book) == BookKey(book) \in DOMAIN p.processed

\* faulty variant: a cached record keeps the ISBN it came with
FromCacheKeepsIsbn(p, book) ==
  LET cached == p.processed[BookKey(book)] IN
  [book EXCEPT !.coverURL = Get(cached, "coverURL", "")]

FromCache(p, book) ==
  LET cached == p.processed[BookKey(book)] IN
  [book EXCEPT !.isbn = Get(cached, "isbn", book.isbn),
               !.coverURL = Get(cached, "coverURL", "")]

\* faulty variant: the 0-based index is tested instead of the 1-based position
CheckpointDueOffByOne(n) == n % CheckpointEvery = 0

CheckpointDue(n) == (n + 1) % CheckpointEvery = 0

\* one Lookup Client invocation: the operation and its argument, what the
\* service answered and whether the request failed, what the operation
\* returned, and whether the rate-limit delay ran since the invocation before
\* it (search_by_isbn is invoked from inside lookup_isbn)
Call(op, arg, resp, res) ==
  [op |-> op, arg |-> arg, resp |-> resp, failed |-> resp.status = "error",
   res |-> res, delayed |-> slept]
NestedCall(op, arg, resp, res) ==
  [op |-> op, arg |-> arg, resp |-> resp, failed |-> resp.status = "error",
   res |-> res, delayed |-> FALSE]

Running == pc \notin {"idle", "exited", "crashed", "killed"}

-----------------------------------------------------------------------------
(* main, lines 181-196: load the progress, parse the CSV *)

Start ==
  /\ ~Running
  /\ resumed' = (pc = "exited")
  /\ IF LoadFails(file)
     THEN /\ pc' = "crashed"
          /\ error' = "JSONDecodeError"
          /\ progress' = EmptyProgress
          /\ books' = <<>>
     ELSE /\ pc' = "loop"
          /\ error' = ""
          /\ progress' = load_progress(file)
          /\ books' = parse_bookbuddy_csv(csv)
  /\ processed_books' = <<>>
  /\ i' = 0
  /\ isbn' = ""
  /\ cover_url' = ""
  /\ calls' = <<>>
  /\ slept' = TRUE
  /\ saves' = <<>>
  /\ hits' = 0
  /\ stdout' = <<>>
  /\ UNCHANGED <<online, fixed, initial_file, csv, file, outfile>>

(* faulty variant: a cached record is skipped without being appended *)
LoopCacheHitDropsRecord ==
  /\ pc = "loop"
  /\ i < Len(books)
  /\ CacheHit(progress, books[i + 1])
  /\ i' = i + 1
  /\ calls' = <<>>
  /\ hits' = hits + 1
  /\ UNCHANGED <<resumed, pc, error, online, fixed, initial_file, csv, books, file, outfile, progress,
                 processed_books, isbn, cover_url, slept, saves, stdout>>

(* lines 198-210: the record at i is in progress['processed'] *)
LoopCacheHit ==
  /\ pc = "loop"
  /\ i < Len(books)
  /\ CacheHit(progress, books[i + 1])
  /\ processed_books' = Append(processed_books, FromCache(progress, books[i + 1]))
  /\ i' = i + 1
  /\ calls' = <<>>
  /\ hits' = hits + 1
  /\ UNCHANGED <<resumed, pc, error, online, fixed, initial_file, csv, books, file, outfile, progress,
                 isbn, cover_url, slept, saves, stdout>>

(* lines 198-217: the record at i is not cached *)
LoopCacheMiss ==
  /\ pc = "loop"
  /\ i < Len(books)
  /\ ~CacheHit(progress, books[i + 1])
  /\ isbn' = books[i + 1].isbn
  /\ cover_url' = ""
  /\ calls' = <<>>
  /\ pc' = IF books[i + 1].isbn # "" THEN "lookup_isbn" ELSE "search"
  /\ UNCHANGED <<resumed, error, online, fixed, initial_file, csv, books, file, outfile, progress,
                 processed_books, i, slept, saves, hits, stdout>>

(* lines 217-226: the record has an ISBN, look up its cover *)
LookupIsbn ==
  /\ pc = "lookup_isbn"
  /\ \E resp \in ByIsbnAnswers(isbn), sresp \in SearchByIsbnAnswers(isbn) :
       LET result == lookup_isbn(isbn, resp, sresp) IN
       /\ calls' = calls \o <<Call("lookup_isbn", isbn, resp, result)>>
                     \o (IF FallsBackToSearch(isbn, resp)
                         THEN <<NestedCall("search_by_isbn", CleanIsbn(isbn), sresp, result)>>
                         ELSE <<>>)
       /\ cover_url' = IF Truthy(result, "cover_url") THEN result.cover_url ELSE cover_url
       /\ pc' = IF result = Raised THEN "crashed"
                ELSE IF Truthy(result, "cover_url") THEN "record"
                ELSE "fallback_search"
       /\ error' = IF result = Raised THEN "Exception" ELSE error
  /\ slept' = FALSE
  /\ UNCHANGED <<resumed, online, fixed, initial_file, csv, books, file, outfile, progress,
                 processed_books, i, isbn, saves, hits, stdout>>

(* lines 224-230: no cover from the ISBN, search by title and author *)
FallbackSearch ==
  /\ pc = "fallback_search"
  /\ \E resp \in SearchAnswers(books[i + 1].title, books[i + 1].authors) :
       LET result == search_open_library(books[i + 1].title, books[i + 1].authors, resp) IN
       /\ calls' = Append(calls, Call("search_open_library", <<books[i + 1].title, books[i + 1].authors>>, resp, result))
       /\ cover_url' = IF Truthy(result, "cover_url") THEN result.cover_url ELSE cover_url
       /\ pc' = IF result = Raised THEN "crashed" ELSE "record"
       /\ error' = IF result = Raised THEN "Exception" ELSE error
  /\ slept' = FALSE
  /\ UNCHANGED <<resumed, online, fixed, initial_file, csv, books, file, outfile, progress,
                 processed_books, i, isbn, saves, hits, stdout>>

(* faulty variant: the ISBN the search returned is not adopted *)
SearchNoIsbnCoverOnly ==
  /\ pc = "search"
  /\ \E resp \in SearchAnswers(books[i + 1].title, books[i + 1].authors) :
       LET result == search_open_library(books[i + 1].title, books[i + 1].authors, resp) IN
       /\ calls' = Append(calls, Call("search_open_library", <<books[i + 1].title, books[i + 1].authors>>, resp, result))
       /\ cover_url' = IF Truthy(result, "cover_url") THEN result.cover_url ELSE cover_url
       /\ pc' = IF result = Raised THEN "crashed" ELSE "record"
       /\ error' = IF result = Raised THEN "Exception" ELSE error
  /\ slept' = FALSE
  /\ UNCHANGED <<resumed, online, fixed, initial_file, csv, books, file, outfile, progress,
                 processed_books, i, isbn, saves, hits, stdout>>

(* lines 231-243: the record has no ISBN, search for it *)
SearchNoIsbn ==
  /\ pc = "search"
  /\ \E resp \in SearchAnswers(books[i + 1].title, books[i + 1].authors) :
       LET result == search_open_library(books[i + 1].title, books[i + 1].authors, resp) IN
       /\ calls' = Append(calls, Call("search_open_library", <<books[i + 1].title, books[i + 1].authors>>, resp, result))
       /\ isbn' = IF Truthy(result, "isbn") THEN result.isbn ELSE isbn
       /\ cover_url' = IF Truthy(result, "cover_url") THEN result.cover_url ELSE cover_url
       /\ pc' = IF result = Raised THEN "crashed" ELSE "record"
       /\ error' = IF result = Raised THEN "Exception" ELSE error
  /\ slept' = FALSE
  /\ UNCHANGED <<resumed, online, fixed, initial_file, csv, books, file, outfile, progress,
                 processed_books, i, saves, hits, stdout>>

(* faulty variant: the progress entry is written without the ISBN *)
RecordCoverOnly ==
  /\ pc = "record"
  /\ processed_books' = Append(processed_books,
                               [books[i + 1] EXCEPT !.isbn = isbn, !.coverURL = cover_url])
  /\ progress' = [processed |-> Put(progress.processed, BookKey(books[i + 1]),
                                    [coverURL |-> cover_url]),
                  last_index |-> i]
  /\ pc' = IF CheckpointDue(i) THEN "checkpoint" ELSE "sleep"
  /\ UNCHANGED <<resumed, error, online, fixed, initial_file, csv, books, file, outfile, i, isbn,
                 cover_url, calls, slept, saves, hits, stdout>>

(* lines 245-256: store the result on the record and in the progress *)
Record ==
  /\ pc = "record"
  /\ processed_books' = Append(processed_books,
                               [books[i + 1] EXCEPT !.isbn = isbn, !.coverURL = cover_url])
  /\ progress' = [processed |-> Put(progress.processed, BookKey(books[i + 1]),
                                    [isbn |-> isbn, coverURL |-> cover_url]),
                  last_index |-> i]
  /\ pc' = IF CheckpointDue(i) THEN "checkpoint" ELSE "sleep"
  /\ UNCHANGED <<resumed, error, online, fixed, initial_file, csv, books, file, outfile, i, isbn,
                 cover_url, calls, slept, saves, hits, stdout>>

(* line 257, save_progress line 33: the checkpoint opens the file for writing *)
CheckpointOpen ==
  /\ pc = "checkpoint"
  /\ file' = save_open(file)
  /\ pc' = "checkpoint_dump"
  /\ UNCHANGED <<resumed, error, online, fixed, initial_file, csv, books, outfile, progress,
                 processed_books, i, isbn, cover_url, calls, slept, saves, hits,
                 stdout>>

(* line 257, save_progress line 34: the checkpoint writes the progress *)
CheckpointDump ==
  /\ pc = "checkpoint_dump"
  /\ file' = save_dump(progress)
  /\ saves' = Append(saves, Len(processed_books))
  /\ pc' = "sleep"
  /\ UNCHANGED <<resumed, error, online, fixed, initial_file, csv, books, outfile, progress,
                 processed_books, i, isbn, cover_url, calls, slept, hits, stdout>>

(* lines 260-261: rate limiting, then on to the next record *)
Sleep ==
  /\ pc = "sleep"
  /\ slept' = TRUE
  /\ i' = i + 1
  /\ calls' = <<>>
  /\ pc' = "loop"
  /\ UNCHANGED <<resumed, error, online, fixed, initial_file, csv, books, file, outfile, progress,
                 processed_books, isbn, cover_url, saves, hits, stdout>>

(* line 198: the loop is over *)
LoopExit ==
  /\ pc = "loop"
  /\ i = Len(books)
  /\ pc' = "final_save"
  /\ UNCHANGED <<resumed, error, online, fixed, initial_file, csv, books, file, outfile, progress,
                 processed_books, i, isbn, cover_url, calls, slept, saves, hits,
                 stdout>>

(* line 264, save_progress line 33 *)
FinalSaveOpen ==
  /\ pc = "final_save"
  /\ file' = save_open(file)
  /\ pc' = "final_dump"
  /\ UNCHANGED <<resumed, error, online, fixed, initial_file, csv, books, outfile, progress,
                 processed_books, i, isbn, cover_url, calls, slept, saves, hits,
                 stdout>>

(* line 264, save_progress line 34 *)
FinalSaveDump ==
  /\ pc = "final_dump"
  /\ file' = save_dump(progress)
  /\ saves' = Append(saves, Len(processed_books))
  /\ pc' = "output"
  /\ UNCHANGED <<resumed, error, online, fixed, initial_file, csv, books, outfile, progress,
                 processed_books, i, isbn, cover_url, calls, slept, hits, stdout>>

-----------------------------------------------------------------------------
(* Output Writer *)

RECURSIVE ZeroPad(_, _)
ZeroPad(s, width) == IF Len(s) >= width THEN s ELSE ZeroPad("0" \o s, width)

\* f"book_{i:04d}"
FormatKey(n) == "book_" \o ZeroPad(ToString(n), 4)

Project(book) ==
  [isbn |-> book.isbn, title |-> book.title, authors |-> book.authors,
   coverURL |-> book.coverURL, notes |-> book.notes]

\* firebase_books after the first n records of seq
RECURSIVE FirebaseBooks(_, _)
FirebaseBooks(seq, n) ==
  IF n = 0 THEN <<>>
  ELSE Put(FirebaseBooks(seq, n - 1), FormatKey(n - 1), Project(seq[n]))

AbsentOutput == [kind |-> "absent", data |-> <<>>]

(* lines 266-293: write the output document *)
WriteOutput ==
  /\ pc = "output"
  /\ outfile' = [kind |-> "json",
                 data |-> FirebaseBooks(processed_books, Len(processed_books))]
  /\ pc' = "summary"
  /\ UNCHANGED <<resumed, error, online, fixed, initial_file, csv, books, file, progress,
                 processed_books, i, isbn, cover_url, calls, slept, saves, hits,
                 stdout>>

Count(seq, field) == Cardinality({n \in DOMAIN seq : seq[n][field] # ""})

\* f"{100*w/n:.1f}" in tenths of a percent, rounded half to even
PercentTenths(w, n) ==
  LET q == (1000 * w) \div n
      r == (1000 * w) % n
  IN IF 2 * r > n \/ (2 * r = n /\ q % 2 = 1) THEN q + 1 ELSE q

(* lines 295-306: print the summary; the percentages divide by the total *)
Summary ==
  /\ pc = "summary"
  /\ LET total == Len(processed_books)
         with_isbn == Count(processed_books, "isbn")
         with_cover == Count(processed_books, "coverURL")
     IN IF total = 0
        THEN /\ stdout' = << <<"Total books", total>> >>
             /\ pc' = "crashed"
             /\ error' = "ZeroDivisionError"
        ELSE /\ stdout' = << <<"Total books", total>>,
                             <<"With ISBN", with_isbn, PercentTenths(with_isbn, total)>>,
                             <<"With cover", with_cover, PercentTenths(with_cover, total)>>,
                             <<"Missing ISBN", total - with_isbn>>,
                             <<"Missing cover", total - with_cover>> >>
             /\ pc' = "exited"
             /\ error' = ""
  /\ UNCHANGED <<resumed, online, fixed, initial_file, csv, books, file, outfile, progress,
                 processed_books, i, isbn, cover_url, calls, slept, saves, hits>>

-----------------------------------------------------------------------------
(* The process is terminated from outside: its memory is gone, the files stay *)

Kill ==
  /\ Running
  /\ pc' = "killed"
  /\ books' = <<>>
  /\ progress' = EmptyProgress
  /\ processed_books' = <<>>
  /\ i' = 0
  /\ isbn' = ""
  /\ cover_url' = ""
  /\ calls' = <<>>
  /\ slept' = TRUE
  /\ saves' = <<>>
  /\ hits' = 0
  /\ stdout' = <<>>
  /\ UNCHANGED <<resumed, error, online, fixed, initial_file, csv, file, outfile>>

-----------------------------------------------------------------------------
(* Inputs *)

Row(title, author, s, n) ==
  [Title |-> title, Author |-> author, ISBN |-> s, Notes |-> "row " \o ToString(n)]

\* rows with a title, and rows whose Title is empty or blank
BookTypes ==
  (Titles \X Authors \X InputISBNs)
    \cup {<<"", "X", HyphenatedISBN10>>, <<"  ", "X", "">>}

\* every sequence of at most MaxBooks rows over the small sets
Inputs ==
  UNION { { [n \in 1..len |-> Row(f[n][1], f[n][2], f[n][3], n)] :
              f \in [1..len -> BookTypes] } : len \in 0..MaxBooks }

InitialEntries == { [isbn |-> "", coverURL |-> ""],
                    [isbn |-> ISBN10, coverURL |-> CoverMedium],
                    [coverURL |-> CoverSmall] }

InitialFiles ==
  {AbsentFile, JsonFile(EmptyProgress)}
    \cup { JsonFile([processed |-> [k \in {"A|X"} |-> e], last_index |-> 0]) :
             e \in InitialEntries }

\* len rows with pairwise distinct titles, every second one with an ISBN
BatchRow(n) == Row("T" \o ToString(n), "X", IF n % 2 = 0 THEN HyphenatedISBN10 ELSE "", n)
BatchBook(n) == Book(BatchRow(n))
BatchInput(len) == [n \in 1..len |-> BatchRow(n)]

\* no progress file, or one that already holds the record at position h
BatchFiles(len) ==
  {AbsentFile}
    \cup { JsonFile([processed |-> [k \in {BookKey(BatchBook(h))} |->
                                      [isbn |-> "", coverURL |-> ""]],
                     last_index |-> h - 1]) : h \in 1..len }

InitCommon ==
  /\ resumed = FALSE
  /\ pc = "idle"
  /\ error = ""
  /\ books = <<>>
  /\ initial_file = file
  /\ outfile = AbsentOutput
  /\ progress = EmptyProgress
  /\ processed_books = <<>>
  /\ i = 0
  /\ isbn = ""
  /\ cover_url = ""
  /\ calls = <<>>
  /\ slept = TRUE
  /\ saves = <<>>
  /\ hits = 0
  /\ stdout = <<>>

\* short inputs of every shape, the remote service reachable (each request may fail)
InitSmall ==
  /\ online = TRUE
  /\ fixed = FALSE
  /\ csv \in Inputs
  /\ file \in InitialFiles
  /\ InitCommon

\* long inputs, the remote service unreachable (every request fails)
InitBatch ==
  /\ online = FALSE
  /\ fixed = FALSE
  /\ \E len \in 0..MaxBatch :
       /\ csv = BatchInput(len)
       /\ file \in BatchFiles(len)
  /\ InitCommon

\* inputs long enough for a checkpoint, the remote service reachable and
\* answering every request from the catalogue
InitFixed ==
  /\ online = TRUE
  /\ fixed = TRUE
  /\ \E len \in 0..MaxFixed :
       /\ csv = BatchInput(len)
       /\ file \in BatchFiles(len)
  /\ InitCommon

Init == InitSmall \/ InitBatch \/ InitFixed

Next ==
  \/ Start
  \/ LoopCacheHit
  \/ LoopCacheMiss
  \/ LookupIsbn
  \/ FallbackSearch
  \/ SearchNoIsbn
  \/ Record
  \/ CheckpointOpen
  \/ CheckpointDump
  \/ Sleep
  \/ LoopExit
  \/ FinalSaveOpen
  \/ FinalSaveDump
  \/ WriteOutput
  \/ Summary
  \/ Kill

Spec == Init /\ [][Next]_vars

-----------------------------------------------------------------------------
(* Properties *)

LookupPcs == {"lookup_isbn", "search", "fallback_search", "record"}
LoopPcs == LookupPcs \cup {"loop", "checkpoint", "checkpoint_dump", "sleep"}
Finished == pc \in {"summary", "exited"} \/ (pc = "crashed" /\ error = "ZeroDivisionError")
AfterLoop == pc \in {"final_save", "final_dump", "output"} \/ Finished

LoopStep ==
  \/ LoopCacheHit \/ LoopCacheMiss \/ LookupIsbn \/ FallbackSearch \/ SearchNoIsbn
  \/ Record \/ CheckpointOpen \/ CheckpointDump \/ Sleep \/ LoopExit

FileKeys == IF file.kind = "json" THEN DOMAIN file.data.processed ELSE {}

HasCover(r) == "cover_url" \in DOMAIN r /\ r.cover_url # ""

CallsOf(op) == {n \in DOMAIN calls : calls[n].op = op}

\* C1 (as claimed): every record that had an ISBN when it left the Source
\* Reader has the same ISBN after the Enrichment Loop handled it.
C1_IsbnNeverOverwritten ==
  \A n \in DOMAIN processed_books :
    books[n].isbn # "" => processed_books[n].isbn = books[n].isbn

\* C2: a Lookup Client call is only ever made for a record whose natural key is
\* not in progress['processed'], and a run that follows a completed run over the
\* same progress file makes no call at all: every record is answered from the
\* progress.
C2_NoCallsForKnownKeys ==
  /\ pc \in LookupPcs => BookKey(books[i + 1]) \notin DOMAIN progress.processed
  /\ (Running /\ resumed) =>
       /\ pc \notin LookupPcs
       /\ calls = <<>>
       /\ hits = Len(processed_books)

C2_Witness ==
  /\ resumed /\ pc = "exited"
  /\ Len(books) = 2 /\ hits = 2
  /\ books[1].title # books[2].title
  /\ processed_books[2].coverURL # ""

\* C3 (as claimed): when the loop has gone past a record whose 1-based position
\* is a multiple of 10, a save of the progress was made at that position.
C3_CheckpointAtEveryTenth ==
  pc = "loop" =>
    \A m \in 1..i : m % CheckpointEvery = 0 => m \in Range(saves)

ExpectedCheckpoints(n) == [k \in 1..(n \div CheckpointEvery) |-> k * CheckpointEvery]

\* C4: in a run without any cache hit the saves made so far are exactly those
\* after records 10, 20, ...; after the loop there is one more, so N \div 10 + 1
\* in all, and the progress file then holds the key of every record.
C4_SavesOfAllMissRun ==
  /\ (pc = "loop" /\ hits = 0) => saves = ExpectedCheckpoints(i)
  /\ (pc \in {"output", "summary", "exited"} /\ hits = 0) =>
       /\ saves = Append(ExpectedCheckpoints(Len(books)), Len(books))
       /\ Len(saves) = Len(books) \div CheckpointEvery + 1
       /\ file.kind = "json"
       /\ \A n \in DOMAIN books : BookKey(books[n]) \in DOMAIN file.data.processed
       /\ Cardinality({BookKey(books[n]) : n \in DOMAIN books}) = Len(books)

C4_Witness ==
  /\ pc = "output" /\ hits = 0
  /\ Len(books) = 23
  /\ saves = <<10, 20, 23>>
  /\ Cardinality(DOMAIN file.data.processed) = 23

\* C5 (as claimed): between two records, at most 9 keys resolved in this run
\* are missing from the progress file.
C5_AtMostNineUnsaved ==
  pc = "loop" =>
    Cardinality(DOMAIN progress.processed \ FileKeys) <= CheckpointEvery - 1

\* C6 (as claimed): the rate-limit delay ran between every Lookup Client
\* invocation and the one before it.
C6_DelayBetweenInvocations ==
  \A n \in DOMAIN calls : calls[n].delayed

\* C7: once the output document is written it has one key per record of the
\* input, the keys are book_0000 .. book_(N-1), and the record under the n-th
\* key is the n-th input record, carrying what the loop stored for it.
C7_OutputKeys ==
  Finished =>
    LET doc == outfile.data
        N == Len(books)
    IN /\ outfile.kind = "json"
       /\ Cardinality(DOMAIN doc) = N
       /\ DOMAIN doc = {FormatKey(n) : n \in 0..(N - 1)}
       /\ \A k \in DOMAIN doc : Len(k) = 9
       /\ N >= 1 => "book_0000" \in DOMAIN doc
       /\ N >= 2 => "book_0001" \in DOMAIN doc
       /\ \A n \in 1..N :
            /\ doc[FormatKey(n - 1)].title = books[n].title
            /\ doc[FormatKey(n - 1)].authors = books[n].authors
            /\ doc[FormatKey(n - 1)].notes = books[n].notes
            /\ doc[FormatKey(n - 1)].isbn = processed_books[n].isbn
            /\ doc[FormatKey(n - 1)].coverURL = processed_books[n].coverURL

C7_Witness ==
  /\ pc = "exited"
  /\ Len(books) = 2
  /\ hits = 1
  /\ Cardinality(DOMAIN outfile.data) = 2
  /\ outfile.data["book_0001"].notes = "row 2"

\* C8 (as claimed): a run that got past the loading of the progress ends
\* normally, with the final save made, the output written and the five
\* summary lines printed.
C8_EveryRunEndsNormally ==
  /\ pc = "crashed" => error = "JSONDecodeError"
  /\ pc = "exited" =>
       /\ saves # <<>>
       /\ outfile.kind = "json"
       /\ Len(stdout) = 5

\* C9: a failed request is returned as "no result" and no Lookup Client
\* exception ends the run; no operation is invoked twice for a record; the loop
\* can always take its next step; and the records appended are the input
\* records in input order, all of them once the loop is over.
C9_LookupFailuresNeverAbort ==
  /\ error # "Exception"
  /\ \A n \in DOMAIN calls : calls[n].failed => calls[n].res = None
  /\ \A n, m \in DOMAIN calls : calls[n].op = calls[m].op => n = m
  /\ pc \in LoopPcs => ENABLED LoopStep
  /\ Len(processed_books) <= Len(books)
  /\ \A n \in DOMAIN processed_books :
       /\ processed_books[n].title = books[n].title
       /\ processed_books[n].authors = books[n].authors
       /\ processed_books[n].notes = books[n].notes
  /\ AfterLoop => Len(processed_books) = Len(books)

C9_Witness ==
  /\ pc = "sleep"
  /\ Len(processed_books) = 2
  /\ Len(calls) = 2
  /\ \A n \in DOMAIN calls : calls[n].failed /\ calls[n].res = None
  /\ processed_books[2].coverURL = ""

\* C10: for a cache-miss record with an ISBN, lookup_isbn is invoked exactly
\* once; search_open_library is invoked, once, exactly when lookup_isbn gave no
\* non-empty cover; the cover is lookup_isbn's when non-empty, else the
\* search's when non-empty, else empty; and the ISBN stays the record's own.
C10_IsbnRecordLookup ==
  (pc \in {"record", "checkpoint", "checkpoint_dump", "sleep"} /\ books[i + 1].isbn # "") =>
    LET L == CallsOf("lookup_isbn")
        S == CallsOf("search_open_library")
        l == calls[CHOOSE n \in L : TRUE]
        s == calls[CHOOSE n \in S : TRUE]
        cover == IF HasCover(l.res) THEN l.res.cover_url
                 ELSE IF HasCover(s.res) THEN s.res.cover_url
                 ELSE ""
    IN /\ Cardinality(L) = 1
       /\ Cardinality(S) = IF HasCover(l.res) THEN 0 ELSE 1
       /\ IF pc = "record"
          THEN isbn = books[i + 1].isbn /\ cover_url = cover
          ELSE /\ processed_books[i + 1].isbn = books[i + 1].isbn
               /\ processed_books[i + 1].coverURL = cover
               /\ progress.processed[BookKey(books[i + 1])] =
                    [isbn |-> books[i + 1].isbn, coverURL |-> cover]

C10_Witness ==
  /\ pc = "sleep"
  /\ books[i + 1].isbn = ISBN13
  /\ Len(calls) = 2
  /\ calls[1].op = "lookup_isbn" /\ calls[1].res = [cover_url |-> ""]
  /\ calls[2].op = "search_open_library"
  /\ calls[2].res = [isbn |-> FoundISBN13, cover_url |-> CoverTemplate(8)]
  /\ processed_books[i + 1].isbn = ISBN13
  /\ processed_books[i + 1].coverURL = CoverTemplate(8)

\* C11: for a cache-miss record without an ISBN, search_open_library is invoked
\* exactly once and lookup_isbn (with its search_by_isbn) never; the record's
\* ISBN is the returned one when that is non-empty and stays empty otherwise,
\* its cover is the returned one when non-empty and empty otherwise; with no
\* result both are empty.
C11_NoIsbnRecordSearch ==
  (pc \in {"record", "checkpoint", "checkpoint_dump", "sleep"} /\ books[i + 1].isbn = "") =>
    LET s == calls[1].res
        found_isbn == IF s # None /\ s.isbn # "" THEN s.isbn ELSE ""
        found_cover == IF s # None /\ s.cover_url # "" THEN s.cover_url ELSE ""
    IN /\ Len(calls) = 1
       /\ calls[1].op = "search_open_library"
       /\ CallsOf("lookup_isbn") = {} /\ CallsOf("search_by_isbn") = {}
       /\ s = None => found_isbn = "" /\ found_cover = ""
       /\ IF pc = "record"
          THEN isbn = found_isbn /\ cover_url = found_cover
          ELSE /\ processed_books[i + 1].isbn = found_isbn
               /\ processed_books[i + 1].coverURL = found_cover
               /\ progress.processed[BookKey(books[i + 1])] =
                    [isbn |-> found_isbn, coverURL |-> found_cover]

C11_Witness ==
  /\ pc = "sleep"
  /\ books[i + 1].isbn = ""
  /\ Len(calls) = 1
  /\ calls[1].res = [isbn |-> FoundISBN10, cover_url |-> ""]
  /\ processed_books[i + 1].isbn = FoundISBN10
  /\ processed_books[i + 1].coverURL = ""

\* C12: when every request made for a cache-miss record failed, the record
\* still gets a progress entry under its natural key, with an empty cover and
\* the ISBN the record came with; and whatever entry the progress file holds
\* for a key, a run that loaded the file has the same entry in its progress,
\* makes no lookup for a record with that key, and gives the record the
\* entry's values.
C12_FailedLookupCachedForGood ==
  /\ ( /\ pc \in {"record", "checkpoint", "checkpoint_dump", "sleep"}
       /\ calls # <<>>
       /\ \A n \in DOMAIN calls : calls[n].failed ) =>
       IF pc = "record"
       THEN isbn = books[i + 1].isbn /\ cover_url = ""
       ELSE /\ progress.processed[BookKey(books[i + 1])] =
                 [isbn |-> books[i + 1].isbn, coverURL |-> ""]
            /\ processed_books[i + 1].isbn = books[i + 1].isbn
            /\ processed_books[i + 1].coverURL = ""
  /\ Running =>
       \A k \in FileKeys :
         /\ k \in DOMAIN progress.processed
         /\ progress.processed[k] = file.data.processed[k]
  /\ pc \in LookupPcs => BookKey(books[i + 1]) \notin FileKeys
  /\ \A n \in DOMAIN processed_books :
       BookKey(books[n]) \in FileKeys =>
         LET e == file.data.processed[BookKey(books[n])] IN
         /\ processed_books[n].coverURL = (IF "coverURL" \in DOMAIN e THEN e.coverURL ELSE "")
         /\ processed_books[n].isbn = (IF "isbn" \in DOMAIN e THEN e.isbn ELSE books[n].isbn)

C12_Witness ==
  /\ resumed /\ pc = "exited" /\ online
  /\ Len(books) = 1
  /\ books[1].isbn = ISBN10
  /\ FileKeys = {"A|X"}
  /\ file.data.processed["A|X"] = [isbn |-> ISBN10, coverURL |-> ""]
  /\ hits = 1
  /\ processed_books[1].coverURL = ""

\* C13 (as claimed): when the process has been terminated the progress file
\* holds a complete document, and no run fails to load it.
C13_ProgressFileAlwaysLoadable ==
  /\ pc = "killed" => ~LoadFails(file)
  /\ error # "JSONDecodeError"

\* C14: lookup_isbn invokes search_by_isbn, with the ISBN stripped of hyphens
\* and spaces, exactly when the by-ISBN request succeeded and the answer has
\* no entry for that ISBN, and then returns what search_by_isbn returns; when
\* the by-ISBN request failed it returns no result and search_by_isbn is not
\* invoked; when the entry exists search_by_isbn is not invoked and the cover
\* returned is the entry's medium image, else its small one, else empty.
C14_LookupIsbnFallback ==
  \A n \in CallsOf("lookup_isbn") :
    LET c == calls[n]
        key == "ISBN:" \o CleanIsbn(c.arg)
        answered == c.resp.status = "ok"
        has_entry == answered /\ key \in DOMAIN c.resp.data
        nested == n + 1 \in CallsOf("search_by_isbn")
    IN /\ Cardinality(CallsOf("search_by_isbn")) = IF nested THEN 1 ELSE 0
       /\ nested <=> (answered /\ ~has_entry)
       /\ nested => /\ calls[n + 1].arg = CleanIsbn(c.arg)
                    /\ \A j \in 1..Len(calls[n + 1].arg) :
                         SubSeq(calls[n + 1].arg, j, j) \notin {"-", " "}
                    /\ c.res = calls[n + 1].res
                    /\ calls[n + 1].failed => c.res = None
       /\ ~answered => c.res = None /\ ~nested
       /\ has_entry =>
            LET bd == c.resp.data[key] IN
            /\ ~nested
            /\ c.res = [cover_url |->
                 IF "cover" \in DOMAIN bd /\ "medium" \in DOMAIN bd.cover THEN bd.cover.medium
                 ELSE IF "cover" \in DOMAIN bd /\ "small" \in DOMAIN bd.cover THEN bd.cover.small
                 ELSE ""]

C14_Witness ==
  /\ pc = "fallback_search"
  /\ Len(calls) = 2
  /\ calls[1].op = "lookup_isbn" /\ calls[1].arg = ISBN13
  /\ calls[1].resp = [status |-> "ok", data |-> <<>>]
  /\ calls[2].op = "search_by_isbn" /\ calls[2].arg = "9780441013593"
  /\ calls[2].failed
  /\ calls[1].res = None

Blank(t) == \A j \in 1..Len(t) : SubSeq(t, j, j) = " "

\* the title column t holds the title u with blanks around it
Trimmed(t, u) ==
  /\ u # "" /\ SubSeq(u, 1, 1) # " " /\ SubSeq(u, Len(u), Len(u)) # " "
  /\ \E a \in 0..Len(t) :
       /\ a + Len(u) <= Len(t)
       /\ SubSeq(t, a + 1, a + Len(u)) = u
       /\ Blank(SubSeq(t, 1, a))
       /\ Blank(SubSeq(t, a + Len(u) + 1, Len(t)))

\* C15: the records the Source Reader returns are, in the order of the input,
\* the rows whose Title is not empty after trimming: as many records as rows
\* less the rows with an empty trimmed Title (in every state of a run), and,
\* when the Source Reader has just returned, the k-th record made from the
\* k-th such row and no record from a row without a title, whatever its other
\* columns hold.
C15_SourceReaderDropsUntitled ==
  LET titled == {n \in DOMAIN csv : ~Blank(csv[n].Title)}
      untitled == DOMAIN csv \ titled
      row == [k \in 1..Cardinality(titled) |->
                CHOOSE n \in titled : Cardinality({m \in titled : m <= n}) = k]
  IN /\ (Running \/ pc = "exited" \/ (pc = "crashed" /\ error # "JSONDecodeError")) =>
          Len(books) = Len(csv) - Cardinality(untitled)
     /\ (pc = "loop" /\ i = 0) =>
          /\ \A k \in DOMAIN books :
               /\ books[k].notes = csv[row[k]].Notes
               /\ Trimmed(csv[row[k]].Title, books[k].title)
               /\ books[k].authors = csv[row[k]].Author
          /\ \A n \in untitled : \A k \in DOMAIN books : books[k].notes # csv[n].Notes

C15_Witness ==
  /\ pc = "loop"
  /\ Len(csv) = 2
  /\ csv[1].Title = "  " /\ csv[2].Title = " B "
  /\ Len(books) = 1
  /\ books[1].title = "B" /\ books[1].notes = "row 2"

\* C16: in every step of a run, every key of progress['processed'] stays with
\* its entry unchanged; the progress changes only when a cache-miss record is
\* stored, by one entry under a key that was not present (so a key is written
\* at most once per run); and the step that handles a cached record leaves the
\* progress, processed and last_index, as it was.
C16_ProcessedOnlyGrows ==
  [][ (Running /\ pc' # "killed") =>
        /\ \A k \in DOMAIN progress.processed :
             /\ k \in DOMAIN progress'.processed
             /\ progress'.processed[k] = progress.processed[k]
        /\ progress' # progress =>
             /\ pc = "record"
             /\ BookKey(books[i + 1]) \notin DOMAIN progress.processed
             /\ DOMAIN progress'.processed =
                  DOMAIN progress.processed \cup {BookKey(books[i + 1])}
        /\ ( /\ pc = "loop" /\ i < Len(books)
             /\ BookKey(books[i + 1]) \in DOMAIN progress.processed ) =>
             /\ progress' = progress
             /\ Len(processed_books') = Len(processed_books) + 1
    ]_vars

C16_Witness ==
  /\ pc = "loop" /\ i = 2 /\ hits = 1
  /\ Len(books) = 2
  /\ BookKey(books[1]) = BookKey(books[2])
  /\ file.kind = "absent"
  /\ DOMAIN progress.processed = {BookKey(books[1])}
  /\ progress.last_index = 0

\* C17: every record the loop has appended has an entry in progress['processed']
\* under its natural key, and when that entry has both fields the record's ISBN
\* and cover are the entry's; hence, once the loop is over and every entry,
\* loaded or written, has both fields, two records of the output that share a
\* natural key carry the same ISBN and the same cover.
C17_RecordsEqualEntries ==
  (Running \/ pc = "exited") =>
    /\ \A n \in DOMAIN processed_books :
         LET k == processed_books[n].title \o "|" \o processed_books[n].authors IN
         /\ k \in DOMAIN progress.processed
         /\ DOMAIN progress.processed[k] = {"isbn", "coverURL"} =>
              /\ processed_books[n].isbn = progress.processed[k].isbn
              /\ processed_books[n].coverURL = progress.processed[k].coverURL
    /\ AfterLoop =>
         \A n, m \in DOMAIN processed_books :
           ( /\ processed_books[n].title = processed_books[m].title
             /\ processed_books[n].authors = processed_books[m].authors
             /\ \A k \in DOMAIN progress.processed :
                  DOMAIN progress.processed[k] = {"isbn", "coverURL"} ) =>
             /\ processed_books[n].isbn = processed_books[m].isbn
             /\ processed_books[n].coverURL = processed_books[m].coverURL

C17_Witness ==
  /\ pc = "final_save"
  /\ Len(processed_books) = 2
  /\ hits = 1
  /\ books[1].title = books[2].title
  /\ books[1].isbn = ISBN10 /\ books[2].isbn = ISBN13
  /\ processed_books[1].isbn = ISBN10 /\ processed_books[2].isbn = ISBN10
  /\ processed_books[2].coverURL = CoverMedium
  /\ file.kind = "absent"

\* what one uninterrupted pass of the loop gives a cache-miss record when the
\* service answers from the catalogue
Looked(book) ==
  IF book.isbn # ""
  THEN LET byisbn == lookup_isbn(book.isbn, CatalogueByIsbn(CleanIsbn(book.isbn)),
                                 CatalogueSearchByIsbn(CleanIsbn(book.isbn)))
           search == search_open_library(book.title, book.authors,
                                         CatalogueSearch(book.title, book.authors))
       IN [isbn |-> book.isbn,
           coverURL |-> IF HasCover(byisbn) THEN byisbn.cover_url
                        ELSE IF HasCover(search) THEN search.cover_url
                        ELSE ""]
  ELSE LET search == search_open_library(book.title, book.authors,
                                         CatalogueSearch(book.title, book.authors))
       IN [isbn |-> IF search # None /\ search.isbn # "" THEN search.isbn ELSE "",
           coverURL |-> IF HasCover(search) THEN search.cover_url ELSE ""]

\* the single uninterrupted run over the records bks that starts from the
\* entries p0: the entries and the records' (isbn, coverURL) it ends with
Uninterrupted(p0, bks) ==
  LET pass[n \in 0..Len(bks)] ==
        IF n = 0 THEN [processed |-> p0, records |-> <<>>]
        ELSE LET before == pass[n - 1]
                 book == bks[n]
                 key == book.title \o "|" \o book.authors
             IN IF key \in DOMAIN before.processed
                THEN LET e == before.processed[key] IN
                     [processed |-> before.processed,
                      records |-> Append(before.records,
                        [isbn |-> IF "isbn" \in DOMAIN e THEN e.isbn ELSE book.isbn,
                         coverURL |-> IF "coverURL" \in DOMAIN e THEN e.coverURL ELSE ""])]
                ELSE [processed |-> [k \in DOMAIN before.processed \cup {key} |->
                                       IF k = key THEN Looked(book) ELSE before.processed[k]],
                      records |-> Append(before.records, Looked(book))]
  IN pass[Len(bks)]

\* C18: with a service that answers the same request the same way, every run
\* that gets through the loop, whatever runs were terminated before it and
\* wherever (after a completed save included), ends with the same isbn and
\* coverURL for every record and the same progress['processed'] as the single
\* uninterrupted run from the progress file as it was at the beginning.
C18_RerunEqualsUninterrupted ==
  (fixed /\ pc \in {"output", "summary", "exited"}) =>
    LET ref == Uninterrupted(load_progress(initial_file).processed, books) IN
    /\ Len(processed_books) = Len(ref.records)
    /\ \A n \in DOMAIN processed_books :
         /\ processed_books[n].isbn = ref.records[n].isbn
         /\ processed_books[n].coverURL = ref.records[n].coverURL
    /\ progress.processed = ref.processed
    /\ file = JsonFile(progress)

C18_Witness ==
  /\ fixed /\ pc = "exited" /\ ~resumed
  /\ initial_file = AbsentFile
  /\ Len(books) = 12
  /\ hits = 10
  /\ saves = <<12>>
  /\ processed_books[1].isbn = FoundISBN13
  /\ processed_books[11].coverURL = CoverTemplate(8)

=============================================================================
